---- MODULE Spec2Model ----
(***************************************************************************)
(* Model of readSEAM_inputFiles: the material-file reader                  *)
(* (MatFileReader::readMatFile, src/MatFileReader.h) and the manifest loop *)
(* of main (src/unnamed/part_000).                                         *)
(*                                                                         *)
(* A std::string is a tuple of one-character strings, so that the stream   *)
(* extractions (operator>> into a string and into a double) are computed   *)
(* character by character, the way the library computes them.              *)
(***************************************************************************)
EXTENDS Integers, Sequences, FiniteSets, TLC

\* ------------------------------------------------------------------ bounds
\* Total number of lines getline delivers to the reader, over all calls.
MaxLines == 4
\* Number of readMatFile calls on the one reader.
MaxCalls == 2
\* Number of lines of the manifest.
MaxManifest == 3

\* --------------------------------------------------------------- characters
Digits == {"0", "1", "2", "3", "4", "5", "6", "7", "8", "9"}

DigitVal(c) ==
    CASE c = "0" -> 0 [] c = "1" -> 1 [] c = "2" -> 2 [] c = "3" -> 3
      [] c = "4" -> 4 [] c = "5" -> 5 [] c = "6" -> 6 [] c = "7" -> 7
      [] c = "8" -> 8 [] c = "9" -> 9

\* std::isspace on the characters of the model's lines.
IsSpace(c) == c = " "

\* ------------------------------------------------------- material file lines
RecG      == <<"1", " ", "G">>
Rec7      == <<"1", " ", "2", " ", "3", " ", "4", " ", "5", " ", "6", " ", "7">>
RecOne    == <<"2">>
RecGComma == <<"1", ",", " ", "G">>
Rec7Comma == <<"1", ",", "2", ",", "3", ",", "4", ",", "5", ",", "6", ",", "7">>
Blank     == <<" ">>
Empty     == <<>>
Comment   == <<"!", "2">>
BracketL  == <<"(", "2">>
BracketR  == <<")", "2">>

\* The lines a material file of the model is made of.
Lines ==
    {RecG, Rec7, RecOne, RecGComma, Rec7Comma, Blank, Empty, Comment,
     BracketL, BracketR}

VARIABLES
    materials,            \* MatFileReader::materials: id -> SubsystemMaterial
    pc,                   \* reader: "idle", "loop", "returned", "failed"
    isOpen,               \* file.is_open() of the call's ifstream
    file,                 \* the lines getline has delivered in the current (last) call
    currentSubsystemId,   \* local of readMatFile
    currentType,          \* local of readMatFile
    lineCount,            \* local of readMatFile: 1 = header next, 2 = properties next
    cerr,                 \* number of "Failed to open file" diagnostics written
    calls,                \* number of readMatFile calls made
    linesRead,            \* number of lines read over all calls
    entry                 \* materials as it was when the current (last) call began

rvars == <<materials, pc, isOpen, file, currentSubsystemId, currentType,
           lineCount, cerr, calls, linesRead, entry>>

VARIABLES
    mpc,          \* main: "start", "loop", "done" (return 0), "exit1" (return 1)
    fileManager,  \* the five path strings of the FileManager
    mcerr,        \* the diagnostics main has written, in order
    manifest,     \* the manifest lines getline has delivered
    fs            \* the paths an ifstream opens

mvars == <<mpc, fileManager, mcerr, manifest, fs>>

\* ------------------------------------------------------------ stream reading
\* The sentry of a formatted extraction: skip leading whitespace.
RECURSIVE SkipWs(_)
SkipWs(s) == IF s # <<>> /\ IsSpace(s[1]) THEN SkipWs(Tail(s)) ELSE s

\* The longest prefix of s holding no whitespace.
RECURSIVE WordOf(_)
WordOf(s) ==
    IF s = <<>> \/ IsSpace(s[1]) THEN <<>> ELSE <<s[1]>> \o WordOf(Tail(s))

\* The longest prefix of s made of digits: what num_get accumulates for a
\* double from the characters of the model's lines.
RECURSIVE DigitsOf(_)
DigitsOf(s) ==
    IF s = <<>> \/ s[1] \notin Digits THEN <<>> ELSE <<s[1]>> \o DigitsOf(Tail(s))

\* s without its first n characters.
Drop(s, n) == SubSeq(s, n + 1, Len(s))

RECURSIVE ValueFrom(_, _)
ValueFrom(acc, d) ==
    IF d = <<>> THEN acc ELSE ValueFrom(10 * acc + DigitVal(d[1]), Tail(d))

\* The number a run of digits denotes.
ValueOf(d) == ValueFrom(0, d)

\* iss >> str: when nothing but whitespace is left the sentry fails and str
\* keeps its old value; otherwise str becomes the next word.
ExtractString(s, old) ==
    LET t == SkipWs(s)
        w == WordOf(t)
    IN  IF t = <<>>
        THEN [ok |-> FALSE, val |-> old, rest |-> <<>>]
        ELSE [ok |-> TRUE, val |-> w, rest |-> Drop(t, Len(w))]

\* iss >> prop: skip whitespace, read the digits; no digit is a failure.
ExtractDouble(s) ==
    LET t == SkipWs(s)
        d == DigitsOf(t)
    IN  IF d = <<>>
        THEN [ok |-> FALSE, val |-> 0, rest |-> t]
        ELSE [ok |-> TRUE, val |-> ValueOf(d), rest |-> Drop(t, Len(d))]

\* while (iss >> prop): the values read up to the first failure.
RECURSIVE ExtractDoubles(_)
ExtractDoubles(s) ==
    LET r == ExtractDouble(s)
    IN  IF r.ok THEN <<r.val>> \o ExtractDoubles(r.rest) ELSE <<>>

\* ------------------------------------------------------------------ records
\* A slip in the constructor: the two arguments initialise each other's field.
SubsystemMaterialSwapped(id, tp) ==
    [subsystemId |-> tp, type |-> id, properties |-> <<>>]

SubsystemMaterial(id, tp) ==
    [subsystemId |-> id, type |-> tp, properties |-> <<>>]

EmptyMap == [k \in {} |-> SubsystemMaterial(<<>>, <<>>)]

\* A slip in the insertion: the element of a key that is present is replaced.
MapInsertOrAssign(m, id, rec) ==
    [k \in DOMAIN m \cup {id} |-> IF k = id THEN rec ELSE m[k]]

\* std::map::insert: a key that is present keeps its element.
MapInsert(m, id, rec) ==
    IF id \in DOMAIN m
    THEN m
    ELSE [k \in DOMAIN m \cup {id} |-> IF k = id THEN rec ELSE m[k]]

\* find(id) and push_back of every value, in order.
MapAppend(m, id, vals) ==
    IF id \in DOMAIN m
    THEN [m EXCEPT ![id].properties = @ \o vals]
    ELSE m

\* --------------------------------------------------------- one line of input
\* A slip in the tests: the one for ')' is missing.
IsSkippedNoClosing(ln) == ln # <<>> /\ ln[1] \in {"!", "("}

\* The three tests that `continue`: line[0] is '!', '(' or ')'.  line[0] of an
\* empty line is the terminating '\0', none of the three.
IsSkipped(ln) == ln # <<>> /\ ln[1] \in {"!", "(", ")"}

\* The state of a call: the mapping and the three locals.
CallState(m, id, tp, lc) ==
    [materials |-> m, currentSubsystemId |-> id, currentType |-> tp, lineCount |-> lc]

\* The locals as declared, over the mapping m.
FreshCall(m) == CallState(m, <<>>, <<>>, 1)

\* lineCount == 1: iss >> currentSubsystemId >> currentType, insert.
ReadHeader(st, ln) ==
    LET a  == ExtractString(ln, st.currentSubsystemId)
        b  == IF a.ok THEN ExtractString(a.rest, st.currentType)
                      ELSE [ok |-> FALSE, val |-> st.currentType, rest |-> <<>>]
    IN  CallState(MapInsert(st.materials, a.val, SubsystemMaterial(a.val, b.val)),
                  a.val, b.val, 2)

\* lineCount == 2: while (iss >> prop) push_back.
ReadProperties(st, ln) ==
    CallState(MapAppend(st.materials, st.currentSubsystemId, ExtractDoubles(ln)),
              st.currentSubsystemId, st.currentType, 1)

\* The body of the while loop for one line.
StepLine(st, ln) ==
    IF IsSkipped(ln) THEN st
    ELSE IF ln # <<>> /\ st.lineCount = 1 THEN ReadHeader(st, ln)
    ELSE IF ln # <<>> /\ st.lineCount = 2 THEN ReadProperties(st, ln)
    ELSE st

\* The loop over a whole sequence of lines.
RECURSIVE ReadLines(_, _)
ReadLines(st, lns) ==
    IF lns = <<>> THEN st ELSE ReadLines(StepLine(st, lns[1]), Tail(lns))

Now == CallState(materials, currentSubsystemId, currentType, lineCount)

Becomes(st) ==
    /\ materials' = st.materials
    /\ currentSubsystemId' = st.currentSubsystemId
    /\ currentType' = st.currentType
    /\ lineCount' = st.lineCount

\* ------------------------------------------------------------ reader actions
RInit ==
    /\ materials = EmptyMap
    /\ pc = "idle"
    /\ isOpen = FALSE
    /\ file = <<>>
    /\ currentSubsystemId = <<>>
    /\ currentType = <<>>
    /\ lineCount = 1
    /\ cerr = 0
    /\ calls = 0
    /\ linesRead = 0
    /\ entry = EmptyMap

\* readMatFile on a path that opens.
Open ==
    /\ pc # "loop"
    /\ calls < MaxCalls
    /\ calls' = calls + 1
    /\ pc' = "loop"
    /\ isOpen' = TRUE
    /\ file' = <<>>
    /\ entry' = materials
    /\ Becomes(FreshCall(materials))
    /\ UNCHANGED <<cerr, linesRead>>
    /\ UNCHANGED mvars

\* A slip on the failure path: the mapping is emptied before the return.
OpenFailClears ==
    /\ pc # "loop"
    /\ calls < MaxCalls
    /\ calls' = calls + 1
    /\ pc' = "failed"
    /\ isOpen' = FALSE
    /\ file' = <<>>
    /\ entry' = materials
    /\ cerr' = cerr + 1
    /\ Becomes(FreshCall(EmptyMap))
    /\ UNCHANGED linesRead
    /\ UNCHANGED mvars

\* readMatFile on a path that does not open: the diagnostic, and return.
OpenFail ==
    /\ pc # "loop"
    /\ calls < MaxCalls
    /\ calls' = calls + 1
    /\ pc' = "failed"
    /\ isOpen' = FALSE
    /\ file' = <<>>
    /\ entry' = materials
    /\ cerr' = cerr + 1
    /\ Becomes(FreshCall(materials))
    /\ UNCHANGED linesRead
    /\ UNCHANGED mvars

\* A slip in the loop: a properties line with no leading number ends the call.
GetlineStopsOnBadLine(ln) ==
    /\ pc = "loop"
    /\ linesRead < MaxLines
    /\ linesRead' = linesRead + 1
    /\ file' = Append(file, ln)
    /\ Becomes(StepLine(Now, ln))
    /\ pc' = IF ~IsSkipped(ln) /\ ln # <<>> /\ lineCount = 2 /\ ExtractDoubles(ln) = <<>>
             THEN "failed" ELSE pc
    /\ UNCHANGED <<isOpen, cerr, calls, entry>>
    /\ UNCHANGED mvars

\* getline delivers ln; the loop body runs on it.
Getline(ln) ==
    /\ pc = "loop"
    /\ linesRead < MaxLines
    /\ linesRead' = linesRead + 1
    /\ file' = Append(file, ln)
    /\ Becomes(StepLine(Now, ln))
    /\ UNCHANGED <<pc, isOpen, cerr, calls, entry>>
    /\ UNCHANGED mvars

\* A line that one of the three `continue` tests takes.
SkipLine == \E ln \in Lines : IsSkipped(ln) /\ Getline(ln)

\* An empty line: no test takes it, neither branch runs.
EmptyLine == \E ln \in Lines : ln = <<>> /\ Getline(ln)

\* A line read while lineCount is 1.
HeaderLine ==
    \E ln \in Lines : ~IsSkipped(ln) /\ ln # <<>> /\ lineCount = 1 /\ Getline(ln)

\* A line read while lineCount is 2.
PropertiesLine ==
    \E ln \in Lines : ~IsSkipped(ln) /\ ln # <<>> /\ lineCount = 2 /\ Getline(ln)

\* A slip at the end of the call: the stream is left open.
EndOfFileNoClose ==
    /\ pc = "loop"
    /\ pc' = "returned"
    /\ Becomes(FreshCall(materials))
    /\ UNCHANGED <<isOpen, file, cerr, calls, linesRead, entry>>
    /\ UNCHANGED mvars

\* getline reaches the end of the input: file.close() and return.
EndOfFile ==
    /\ pc = "loop"
    /\ pc' = "returned"
    /\ isOpen' = FALSE
    /\ Becomes(FreshCall(materials))
    /\ UNCHANGED <<file, cerr, calls, linesRead, entry>>
    /\ UNCHANGED mvars

Next ==
    \/ Open
    \/ OpenFail
    \/ SkipLine
    \/ EmptyLine
    \/ HeaderLine
    \/ PropertiesLine
    \/ EndOfFile

\* ---------------------------------------------------------- the manifest loop
\* fileFolder (and the directory of extractFilename): "seamInputFiles\\".
fileFolder ==
    <<"s", "e", "a", "m", "I", "n", "p", "u", "t", "F", "i", "l", "e", "s", "\\">>

MatMarker == <<".", "m", "a", "t">>
SubMarker == <<".", "s", "u", "b">>
JunMarker == <<".", "j", "u", "n">>
ExcMarker == <<".", "e", "x", "c">>
ParMarker == <<".", "p", "a", "r">>

Drive == <<"C", ":", "\\">>

\* The lines a manifest of the model is made of.
LineMatA   == Drive \o fileFolder \o <<"a">> \o MatMarker
LineMatA2  == <<"C", ":">> \o fileFolder \o <<"a">> \o MatMarker
LineSub    == Drive \o fileFolder \o <<"a">> \o SubMarker
LineJun    == Drive \o fileFolder \o <<"a">> \o JunMarker
LineExc    == Drive \o fileFolder \o <<"a">> \o ExcMarker
LinePar    == Drive \o fileFolder \o <<"a">> \o ParMarker
LineSubMat == Drive \o <<"a">> \o SubMarker \o MatMarker
LineTxt    == Drive \o fileFolder \o <<"a", ".", "t", "x", "t">>
LineD      == <<"D", ":", "\\">> \o fileFolder \o <<"a">> \o MatMarker

ManifestLines ==
    {LineMatA, LineMatA2, LineSub, LineJun, LineExc, LinePar, LineSubMat,
     LineTxt, LineD, Empty}

Roles == {"MAT", "SUB", "JNC", "EXC", "PAR"}

\* pat occurs in s at position i (from 1).
OccursAt(s, pat, i) ==
    /\ i + Len(pat) - 1 <= Len(s)
    /\ \A j \in 1..Len(pat) : s[i + j - 1] = pat[j]

\* std::string::find: the position (from 1) of the first occurrence of pat in
\* s, 0 for npos.
Find(s, pat) ==
    LET hits == {i \in 1..Len(s) : OccursAt(s, pat, i)}
    IN  IF hits = {} THEN 0 ELSE CHOOSE i \in hits : \A k \in hits : i <= k

extractFilename(fullPath) ==
    LET pos == Find(fullPath, fileFolder)
    IN  IF pos # 0 THEN Drop(fullPath, pos - 1 + Len(fileFolder)) ELSE <<>>

\* fileFolder + filename, for each line of the model (computed once).
TestPath == [ln \in ManifestLines |-> fileFolder \o extractFilename(ln)]

\* std::ifstream testFile(fileFolder + filename); if (testFile)
TestFile(ln) == TestPath[ln] \in fs

\* FileManager: one string per role, empty when constructed.
NewFileManager == [r \in Roles |-> <<>>]

\* FileManager::setMATFIL, setSUBFIL, setJNCFIL, setEXCFIL, setPARFIL: the
\* first path given for a role is the one the role keeps.
SetRole(fm, role, path) ==
    IF fm[role] = <<>> THEN [fm EXCEPT ![role] = path] ELSE fm

\* A slip in the chain: ".sub" is tested before ".mat".
RoleByFindSubFirst(ln) ==
    IF Find(ln, SubMarker) # 0 THEN "SUB"
    ELSE IF Find(ln, MatMarker) # 0 THEN "MAT"
    ELSE IF Find(ln, JunMarker) # 0 THEN "JNC"
    ELSE IF Find(ln, ExcMarker) # 0 THEN "EXC"
    ELSE IF Find(ln, ParMarker) # 0 THEN "PAR"
    ELSE "NONE"

\* The if / else-if chain on the extension markers.
RoleByFind(ln) ==
    IF Find(ln, MatMarker) # 0 THEN "MAT"
    ELSE IF Find(ln, SubMarker) # 0 THEN "SUB"
    ELSE IF Find(ln, JunMarker) # 0 THEN "JNC"
    ELSE IF Find(ln, ExcMarker) # 0 THEN "EXC"
    ELSE IF Find(ln, ParMarker) # 0 THEN "PAR"
    ELSE "NONE"

\* The chain's outcome for each line of the model (computed once).
RoleTable == [ln \in ManifestLines |-> RoleByFind(ln)]

RoleOf(ln) == RoleTable[ln]

\* line[0] != 'C': the line is passed over (line[0] of an empty line is '\0').
NotDrive(ln) == IF ln = <<>> THEN TRUE ELSE ln[1] # "C"

\* The paths main tries to open for the lines of the model.
Paths == {TestPath[ln] : ln \in {l \in ManifestLines : ~NotDrive(l) /\ RoleOf(l) # "NONE"}}

MainState(fm, err) == [fileManager |-> fm, mcerr |-> err]

\* A slip in a branch: the setter is called whether or not the file opens.
CheckAndSetUntested(st, role, ln) ==
    MainState(SetRole(st.fileManager, role, ln), st.mcerr)

\* A slip in a branch: the test of the stream is inverted.
CheckAndSetInverted(st, role, ln) ==
    IF ~TestFile(ln)
    THEN MainState(SetRole(st.fileManager, role, ln), st.mcerr)
    ELSE MainState(st.fileManager, Append(st.mcerr, <<role, ln>>))

\* One branch of the chain: the role's setter when the file opens, the role's
\* diagnostic when it does not.
CheckAndSet(st, role, ln) ==
    IF TestFile(ln)
    THEN MainState(SetRole(st.fileManager, role, ln), st.mcerr)
    ELSE MainState(st.fileManager, Append(st.mcerr, <<role, ln>>))

\* A slip in the last branch: a line of no known type is passed over silently.
MainStepSilentUnsupported(st, ln) ==
    IF NotDrive(ln) THEN st
    ELSE IF RoleOf(ln) # "NONE" THEN CheckAndSet(st, RoleOf(ln), ln)
    ELSE st

\* The body of main's while loop for one line.
MainStep(st, ln) ==
    IF NotDrive(ln) THEN st
    ELSE IF RoleOf(ln) # "NONE" THEN CheckAndSet(st, RoleOf(ln), ln)
    ELSE MainState(st.fileManager, Append(st.mcerr, <<"NONE", ln>>))

MInit ==
    /\ mpc = "start"
    /\ fileManager = NewFileManager
    /\ mcerr = <<>>
    /\ manifest = <<>>
    /\ fs \in SUBSET Paths

\* std::ifstream file(FILEIN) opens.
OpenManifest ==
    /\ mpc = "start"
    /\ mpc' = "loop"
    /\ UNCHANGED <<fileManager, mcerr, manifest, fs, rvars>>

\* The manifest does not open: "Unable to open the input file", return 1.
OpenManifestFail ==
    /\ mpc = "start"
    /\ mpc' = "exit1"
    /\ mcerr' = Append(mcerr, <<"INPUT", <<>>>>)
    /\ UNCHANGED <<fileManager, manifest, fs, rvars>>

ManifestLine(ln) ==
    /\ mpc = "loop"
    /\ Len(manifest) < MaxManifest
    /\ manifest' = Append(manifest, ln)
    /\ LET st == MainStep(MainState(fileManager, mcerr), ln)
       IN  fileManager' = st.fileManager /\ mcerr' = st.mcerr
    /\ UNCHANGED <<mpc, fs, rvars>>

\* A line that does not begin with 'C'.
PassOver == \E ln \in ManifestLines : NotDrive(ln) /\ ManifestLine(ln)

\* A line of a known role whose file opens.
Store ==
    \E ln \in ManifestLines :
        ~NotDrive(ln) /\ RoleOf(ln) # "NONE" /\ TestFile(ln) /\ ManifestLine(ln)

\* A line of a known role whose file does not open.
Missing ==
    \E ln \in ManifestLines :
        ~NotDrive(ln) /\ RoleOf(ln) # "NONE" /\ ~TestFile(ln) /\ ManifestLine(ln)

\* A line with none of the five markers.
Unsupported ==
    \E ln \in ManifestLines :
        ~NotDrive(ln) /\ RoleOf(ln) = "NONE" /\ ManifestLine(ln)

\* The end of the manifest: the five paths are printed, return 0.
ManifestEnd ==
    /\ mpc = "loop"
    /\ mpc' = "done"
    /\ UNCHANGED <<fileManager, mcerr, manifest, fs, rvars>>

MainNext ==
    \/ OpenManifest
    \/ OpenManifestFail
    \/ PassOver
    \/ Store
    \/ Missing
    \/ Unsupported
    \/ ManifestEnd

\* ------------------------------------------------------------ specifications
vars == <<rvars, mvars>>

\* main is not running.
MOff ==
    /\ mpc = "off"
    /\ fileManager = NewFileManager
    /\ mcerr = <<>>
    /\ manifest = <<>>
    /\ fs = {}

\* The reader: any calls of readMatFile on one MatFileReader.
Init == RInit /\ MOff

Spec == Init /\ [][Next]_vars

\* The reader on finite inputs: a call that can take a step takes one, and a
\* finite file has an end, so getline fails after finitely many lines.
FairSpec == Init /\ [][Next]_vars /\ WF_vars(Next)

\* main: one run over a manifest.
MainInit == MInit /\ RInit

MainSpec == MainInit /\ [][MainNext]_vars

\* ------------------------------------------------ the vocabulary of the claims
\* A comment line, an empty line or a bracket-marker line.
SkipEligible(ln) == IF ln = <<>> THEN TRUE ELSE ln[1] \in {"!", "(", ")"}

KeepLine(ln) == ~SkipEligible(ln)

\* The lines of lns that are not skipped, in order.
Kept(lns) == SelectSeq(lns, KeepLine)

\* The whitespace-separated tokens of a line.
RECURSIVE Tokens(_)
Tokens(s) ==
    LET t == SkipWs(s)
        w == WordOf(t)
    IN  IF t = <<>> THEN <<>> ELSE <<w>> \o Tokens(Drop(t, Len(w)))

\* A token that is a number: digits and nothing else.
IsNumber(tok) == tok # <<>> /\ \A i \in 1..Len(tok) : tok[i] \in Digits

\* The leading tokens that are numbers, as values.
RECURSIVE LeadingNumbers(_)
LeadingNumbers(toks) ==
    IF toks = <<>> THEN <<>>
    ELSE IF IsNumber(toks[1]) THEN <<ValueOf(toks[1])>> \o LeadingNumbers(Tail(toks))
    ELSE <<>>

\* The numeric tokens of a line, truncated at the first non-numeric token.
NumericTokens(ln) == LeadingNumbers(Tokens(ln))

IsBlank(ln) == ln # <<>> /\ \A i \in 1..Len(ln) : IsSpace(ln[i])

HasComma(ln) == \E i \in 1..Len(ln) : ln[i] = ","

\* A whitespace-delimited file without blank lines.
Plain(lns) == \A i \in 1..Len(lns) : ~IsBlank(lns[i]) /\ ~HasComma(lns[i])

\* The line with every comma delimiter replaced by a blank.
Uncomma(ln) == [i \in 1..Len(ln) |-> IF ln[i] = "," THEN " " ELSE ln[i]]

UncommaAll(lns) == [i \in 1..Len(lns) |-> Uncomma(lns[i])]

\* The header lines of a file are the odd ones among its kept lines.
HeaderAt(k, i) == i \in 1..Len(k) /\ i % 2 = 1

\* ------------------------------------------------------------------- claims

\* C1: when two header lines of one input carry the same id, after the parse
\* the entry of that id has the type of the later header and exactly the
\* properties of the later properties line.
C1_LaterRecordReplaces ==
    (pc = "returned" /\ Plain(file)) =>
        LET k == Kept(file)
        IN  \A i, j \in 1..Len(k) :
                ( /\ HeaderAt(k, i) /\ HeaderAt(k, j) /\ i < j
                  /\ Len(Tokens(k[i])) >= 2 /\ Len(Tokens(k[j])) >= 2
                  /\ Tokens(k[i])[1] = Tokens(k[j])[1]
                  /\ Tokens(k[i])[2] # Tokens(k[j])[2]
                  /\ \A h \in (j + 1)..Len(k) :
                         HeaderAt(k, h) => Tokens(k[h])[1] # Tokens(k[j])[1] )
                => LET id == Tokens(k[j])[1]
                   IN  /\ id \in DOMAIN materials
                       /\ materials[id].type = Tokens(k[j])[2]
                       /\ materials[id].properties =
                              IF j + 1 <= Len(k) THEN NumericTokens(k[j + 1]) ELSE <<>>

\* C2: once a header line and its properties line are processed, the record's
\* properties are the numeric tokens of the properties line, in order,
\* truncated at the first non-numeric token, however many there are.
C2_PropertiesAreNumericTokens ==
    (pc = "loop" /\ Plain(file)) =>
        LET k == Kept(file)
            n == Len(k)
        IN  (n >= 2 /\ n % 2 = 0 /\ Tokens(k[n - 1]) # <<>>) =>
                LET id == Tokens(k[n - 1])[1]
                IN  /\ id \in DOMAIN materials
                    /\ materials[id].properties = NumericTokens(k[n])

\* C3: comment lines, empty lines and bracket-marker lines never advance the
\* HEADER/PROPERTIES phase and never change the mapping: at every point of a
\* call the mapping, the phase and the current id and type are those the call
\* reaches on the input with all such lines deleted.
C3_SkipLinesLeaveParseUnchanged ==
    /\ pc = "loop" => Now = ReadLines(FreshCall(entry), Kept(file))
    /\ pc = "returned" =>
           materials = ReadLines(FreshCall(entry), Kept(file)).materials

\* C3 witness: a call has returned whose input had a skipped line between a
\* header line and its properties line, and the record got its properties.
C3_Witness ==
    /\ pc = "returned"
    /\ \E i \in 2..(Len(file) - 1) :
           /\ SkipEligible(file[i])
           /\ ~SkipEligible(file[i - 1])
           /\ ~SkipEligible(file[i + 1])
    /\ \E id \in DOMAIN materials : materials[id].properties # <<>>

\* C4: a comma-delimited input parses to the same records as its
\* whitespace-delimited form.
C4_CommaFormParsesAlike ==
    pc = "returned" =>
        materials = ReadLines(FreshCall(entry), UncommaAll(file)).materials

\* C5: a call on a path that cannot be opened writes a diagnostic, returns,
\* and the mapping after it is empty, whatever earlier calls parsed.
C5_OpenFailureYieldsEmptyMapping ==
    pc = "failed" => (cerr >= 1 /\ ~isOpen /\ materials = EmptyMap)

\* C6: after any sequence of calls the mapping holds exactly the records of
\* the most recent call's input.
C6_MappingRebuiltEachCall ==
    pc = "returned" =>
        materials = ReadLines(FreshCall(EmptyMap), file).materials

\* C7: the record created for a header line with fewer than two tokens has
\* the empty string as its type, wherever the header is in the file.
C7_MissingTypeIsEmpty ==
    (pc = "loop" /\ Plain(file)) =>
        LET k == Kept(file)
            n == Len(k)
        IN  ( /\ n % 2 = 1
              /\ Len(Tokens(k[n])) = 1
              /\ Tokens(k[n])[1] \notin DOMAIN entry
              /\ \A h \in 1..(n - 1) :
                     HeaderAt(k, h) => Tokens(k[h])[1] # Tokens(k[n])[1] )
            => /\ Tokens(k[n])[1] \in DOMAIN materials
               /\ materials[Tokens(k[n])[1]].type = <<>>

\* C8: a header line that is the last non-skipped line of the input yields
\* an entry for its id whose properties sequence is empty.
C8_TrailingHeaderHasNoProperties ==
    (pc = "returned" /\ Plain(file)) =>
        LET k == Kept(file)
            n == Len(k)
        IN  (n % 2 = 1 /\ Tokens(k[n]) # <<>>) =>
                /\ Tokens(k[n])[1] \in DOMAIN materials
                /\ materials[Tokens(k[n])[1]].properties = <<>>

\* C9: a blank line is taken as a comment line: reading it does not change
\* the phase and does not create or modify any record.
C9_BlankLineIsComment ==
    [][ (pc = "loop" /\ file' = Append(file, Blank))
            => (lineCount' = lineCount /\ materials' = materials) ]_vars

\* The manifest lines that are stored: sentinel, a role, and the file opens.
Accepted(ln, role) == ~NotDrive(ln) /\ RoleOf(ln) = role /\ TestFile(ln)

\* The first line of lns accepted for role, the empty string if there is none.
FirstAccepted(lns, role) ==
    LET hits == {i \in 1..Len(lns) : Accepted(lns[i], role)}
    IN  IF hits = {} THEN <<>>
        ELSE lns[CHOOSE i \in hits : \A h \in hits : i <= h]

C11_ReadsToEndOfInput ==
    /\ [][ pc = "loop" =>
              \/ pc' = "loop" /\ isOpen' /\ Len(file') = Len(file) + 1
              \/ pc' = "returned" /\ file' = file ]_vars
    /\ [][ pc' = "failed" => (pc # "loop" /\ file' = <<>>) ]_vars
    /\ (pc = "loop") ~> (pc = "returned")

\* C11 witness: a call has returned after an unmatched ')' line, a blank
\* header line and a trailing header with no properties line.
C11_Witness ==
    /\ pc = "returned"
    /\ Len(Kept(file)) % 2 = 1
    /\ \E i \in 1..Len(file) : file[i] = BracketR
    /\ \E i \in 1..Len(file) : file[i] = Blank

\* C12: after readMatFile has returned, by the end of the input or by the
\* open failure, no file handle of the call is open.
C12_NoHandleLeftOpen == pc # "loop" => ~isOpen

\* C12 witness: one call has failed to open, a later one has read lines
\* and returned, and no handle is open.
C12_Witness == pc = "returned" /\ cerr >= 1 /\ file # <<>> /\ ~isOpen

\* The id a header line carries: its first token, the empty string if the
\* line has no token.
HeaderId(ln) == IF Tokens(ln) = <<>> THEN <<>> ELSE Tokens(ln)[1]

\* s is t with values appended.
IsPrefixOf(s, t) == Len(s) <= Len(t) /\ SubSeq(t, 1, Len(s)) = s

\* C13: the call starts in HEADER, every line that is not skipped toggles the
\* phase, and every value appended in PROPERTIES goes to the record keyed by
\* the id of the header line just before; none is appended before a header
\* line of the same call.
C13_TwoPhaseCycle ==
    /\ [](pc = "loop" => lineCount = 1 + (Len(Kept(file)) % 2))
    /\ [][ (pc = "loop" /\ pc' = "loop") =>
              \A id \in DOMAIN materials' :
                  (id \notin DOMAIN materials \/ materials'[id] # materials[id]) =>
                      LET k == Kept(file')
                      IN  IF Len(k) % 2 = 1
                          THEN id = HeaderId(k[Len(k)])
                          ELSE /\ Len(k) >= 2
                               /\ id = HeaderId(k[Len(k) - 1])
                               /\ id \in DOMAIN materials
                               /\ IsPrefixOf(materials[id].properties,
                                             materials'[id].properties) ]_vars

\* The line main has just read.
LineRead == manifest'[Len(manifest')]

\* C14: each manifest line that begins with the sentinel has exactly one
\* outcome, a path stored for its role or one diagnostic (no known marker, or
\* the file does not open), and the loop goes on; a line that does not begin
\* with the sentinel stores nothing and writes nothing.
C14_OneOutcomePerLine ==
    [][ (mpc = "loop" /\ Len(manifest') = Len(manifest) + 1) =>
          /\ mpc' = "loop"
          /\ IF NotDrive(LineRead)
             THEN fileManager' = fileManager /\ mcerr' = mcerr
             ELSE IF RoleOf(LineRead) # "NONE" /\ TestFile(LineRead)
             THEN /\ mcerr' = mcerr
                  /\ fileManager'[RoleOf(LineRead)] # <<>>
                  /\ \A r \in Roles \ {RoleOf(LineRead)} :
                         fileManager'[r] = fileManager[r]
             ELSE /\ fileManager' = fileManager
                  /\ Len(mcerr') = Len(mcerr) + 1
                  /\ SubSeq(mcerr', 1, Len(mcerr)) = mcerr
                  /\ mcerr'[Len(mcerr')][2] = LineRead ]_vars

\* C14 witness: the manifest is exhausted after a line that was stored, a
\* line that drew a diagnostic and a line without the sentinel.
C14_Witness ==
    /\ mpc = "done"
    /\ Len(manifest) = 3
    /\ Len(mcerr) = 1
    /\ \E r \in Roles : fileManager[r] # <<>>
    /\ \E i \in 1..Len(manifest) : NotDrive(manifest[i])

\* The markers in their priority order, each with its role.
MarkerOrder ==
    << <<MatMarker, "MAT">>, <<SubMarker, "SUB">>, <<JunMarker, "JNC">>,
       <<ExcMarker, "EXC">>, <<ParMarker, "PAR">> >>

\* marker occurs somewhere in ln.
Contains(ln, marker) ==
    \E i \in 1..(Len(ln) - Len(marker) + 1) :
        SubSeq(ln, i, i + Len(marker) - 1) = marker

\* The role of the first marker, in priority order, that occurs in ln.
MarkerRoleIn(ln) ==
    LET hits == {n \in 1..Len(MarkerOrder) : Contains(ln, MarkerOrder[n][1])}
    IN  IF hits = {} THEN "NONE"
        ELSE MarkerOrder[CHOOSE n \in hits : \A h \in hits : n <= h][2]

\* The same, for each line of the model (computed once).
MarkerRoleTable == [ln \in ManifestLines |-> MarkerRoleIn(ln)]

MarkerRole(ln) == MarkerRoleTable[ln]

\* C15: a manifest line is classified once, by the first of .mat, .sub, .jun,
\* .exc, .par (in this order) that occurs anywhere in it, as unrecognized if
\* none does; it is never stored under two roles.
C15_RoleByMarkerPriority ==
    mpc \in {"loop", "done"} =>
        /\ \A r \in Roles :
               fileManager[r] # <<>> => MarkerRole(fileManager[r]) = r
        /\ \A n \in 1..Len(mcerr) : mcerr[n][1] = MarkerRole(mcerr[n][2])
        /\ \A i \in 1..Len(manifest) :
               ~NotDrive(manifest[i]) =>
                   IF MarkerRole(manifest[i]) # "NONE" /\ TestFile(manifest[i])
                   THEN fileManager[MarkerRole(manifest[i])] # <<>>
                   ELSE \E n \in 1..Len(mcerr) :
                            mcerr[n] = <<MarkerRole(manifest[i]), manifest[i]>>
        /\ \A r1, r2 \in Roles :
               (r1 # r2 /\ fileManager[r1] # <<>>) => fileManager[r1] # fileManager[r2]

\* C15 witness: a line holding both ".sub" and ".mat" was accepted and is
\* stored as the material path only.
C15_Witness ==
    /\ mpc = "done"
    /\ fileManager["MAT"] = LineSubMat
    /\ fileManager["SUB"] = <<>>
    /\ Contains(LineSubMat, SubMarker)
    /\ Find(LineSubMat, SubMarker) < Find(LineSubMat, MatMarker)

\* The marker of a role.
MarkerOf(role) ==
    CASE role = "MAT" -> MatMarker [] role = "SUB" -> SubMarker
      [] role = "JNC" -> JunMarker [] role = "EXC" -> ExcMarker
      [] role = "PAR" -> ParMarker

\* C16: at every point of the loop each role slot is unset or holds a
\* manifest line already read that begins with the sentinel, contains the
\* role's marker and whose file opened; a line whose file does not open
\* changes no slot.
C16_SlotsHoldAcceptedLines ==
    /\ [](mpc \in {"loop", "done"} =>
            \A r \in Roles :
                \/ fileManager[r] = <<>>
                \/ \E i \in 1..Len(manifest) :
                       /\ manifest[i] = fileManager[r]
                       /\ manifest[i][1] = "C"
                       /\ Contains(manifest[i], MarkerOf(r))
                       /\ (fileFolder \o extractFilename(manifest[i])) \in fs)
    /\ [][ (mpc = "loop" /\ Len(manifest') = Len(manifest) + 1
              /\ (fileFolder \o extractFilename(LineRead)) \notin fs)
           => fileManager' = fileManager ]_vars

\* C16 witness: a material line whose file does not open was read first and
\* left the slot unset, then one whose file opens was read and is stored.
C16_Witness ==
    /\ mpc = "loop"
    /\ Len(manifest) = 2
    /\ manifest[1] = LineSubMat
    /\ ~TestFile(LineSubMat)
    /\ fileManager["MAT"] = LineMatA

\* C17: over any calls and lines on one reader the mapping only grows: an id
\* once present stays, its type does not change, and its properties keep
\* their earlier value as a prefix.
C17_MappingOnlyGrows ==
    [][ \A id \in DOMAIN materials :
            /\ id \in DOMAIN materials'
            /\ materials'[id].subsystemId = materials[id].subsystemId
            /\ materials'[id].type = materials[id].type
            /\ IsPrefixOf(materials[id].properties, materials'[id].properties) ]_vars

\* C17 witness: in a second call a header line repeated an id of the first
\* call with another type, and the record has kept its type and grown.
C17_Witness ==
    /\ pc = "returned"
    /\ calls = 2
    /\ \E id \in DOMAIN entry :
           /\ \E i \in 1..Len(file) :
                  /\ Len(Tokens(file[i])) >= 2
                  /\ Tokens(file[i])[1] = id
                  /\ Tokens(file[i])[2] # entry[id].type
           /\ materials[id].type = entry[id].type
           /\ entry[id].properties # <<>>
           /\ Len(materials[id].properties) > Len(entry[id].properties)

\* C18: a call whose file cannot be opened leaves the mapping exactly as it
\* was before the call.
C18_OpenFailureKeepsMapping ==
    [][ cerr' = cerr + 1 => (pc' = "failed" /\ materials' = materials) ]_vars

\* C18 witness: a call has failed to open on a reader that holds records
\* with properties.
C18_Witness ==
    /\ pc = "failed"
    /\ \E id \in DOMAIN materials : materials[id].properties # <<>>

\* C19: each entry of the mapping is stored under the subsystemId of its
\* record.
C19_KeyIsSubsystemId ==
    \A id \in DOMAIN materials : materials[id].subsystemId = id

\* C19 witness: the mapping holds two records with a type each.
C19_Witness ==
    \E a, b \in DOMAIN materials :
        a # b /\ materials[a].type # <<>> /\ materials[b].type # <<>>

====
